---- MODULE Spec2Model ----
(***************************************************************************)
(* Crossword constraint-satisfaction solver (Project 3 - Crossword).       *)
(*                                                                         *)
(* Two CrosswordCreator variants live in the repository:                   *)
(*   "crossword" : crossword.py, backtracking with inference (singleton    *)
(*                 narrowing, seeded ac3, saved_domains restore);          *)
(*   "generate"  : generate.py, plain backtracking on one shared dict.     *)
(* Words are tuples of letters; positions in the code are 0-based, so the  *)
(* character word[i] of the code is Char(word, i) here.                    *)
(*                                                                         *)
(* Python sets have no specified iteration order: every place where the    *)
(* code iterates a set and the order can be observed (worklist order,      *)
(* stable-sort ties) is a nondeterministic choice over all orders.         *)
(***************************************************************************)
EXTENDS Integers, Sequences, FiniteSets, TLC

VARIABLES crossword, variant, domains, pc, caller, queue, ret,
          stack, assignment, result

vars == <<crossword, variant, domains, pc, caller, queue, ret,
          stack, assignment, result>>

-----------------------------------------------------------------------------
(* Bounds *)

\* largest dictionary (number of words read from the words file)
MaxWords == 4

-----------------------------------------------------------------------------
(* Python values *)

None == "None"

\* return value slot of a call that has not returned yet
NotReturned == [returned |-> FALSE]

\* backtrack returned None
Failure == [returned |-> TRUE, none |-> TRUE]

\* backtrack returned the dict a
Success(a) == [returned |-> TRUE, none |-> FALSE, value |-> a]

\* ac3's return value
True == "True"

False == "False"

EmptyDict == [v \in {} |-> None]

\* a local variable that was not assigned yet
Unbound == EmptyDict

\* word[i] with the code's 0-based index
Char(word, i) == word[i + 1]

\* all the orders in which a set can be iterated
RECURSIVE Orders(_)
Orders(S) ==
    IF S = {} THEN {<<>>}
    ELSE UNION {{<<e>> \o s : s \in Orders(S \ {e})} : e \in S}

-----------------------------------------------------------------------------
(* Puzzle model: Variable and Crossword of the course's crossword module   *)

ACROSS == "across"

DOWN == "down"

Variable(i, j, direction, length) ==
    [i |-> i, j |-> j, direction |-> direction, length |-> length]

\* the cells a slot covers, indexed from 0
cells(v) ==
    [k \in 0..(v.length - 1) |->
        <<v.i + (IF v.direction = DOWN THEN k ELSE 0),
          v.j + (IF v.direction = ACROSS THEN k ELSE 0)>>]

\* crossword.overlaps[a, b]: None, or the index pair (i, j) of the shared cell
overlaps(a, b) ==
    LET common == {p \in (DOMAIN cells(a)) \X (DOMAIN cells(b)) :
                        cells(a)[p[1]] = cells(b)[p[2]]}
    IN  IF common = {} THEN None ELSE CHOOSE p \in common : TRUE

neighbors(cw, var) ==
    {v \in cw.variables : v # var /\ overlaps(v, var) # None}

\* one across slot of length 3 crossed by a down slot of length 2
StructureCross ==
    {Variable(0, 0, ACROSS, 3), Variable(0, 1, DOWN, 2)}

\* two slots of length 2 that share no cell
StructureDisjoint ==
    {Variable(0, 0, ACROSS, 2), Variable(2, 0, ACROSS, 2)}

\* two across slots of length 3 crossing one down slot at their middle letters
StructureH ==
    {Variable(0, 0, ACROSS, 3), Variable(2, 0, ACROSS, 3),
     Variable(0, 1, DOWN, 3)}

\* four slots around a blocked cell: a cycle of overlaps
StructureRing ==
    {Variable(0, 0, ACROSS, 3), Variable(2, 0, ACROSS, 4),
     Variable(0, 0, DOWN, 3), Variable(0, 2, DOWN, 3)}

\* structure file and words file pairs
PuzzleFiles ==
    { [structure |-> StructureCross,
       words |-> {<<"a","a","b">>, <<"b","a","b">>, <<"a","b">>, <<"b","a">>,
                  <<"a">>}],
      [structure |-> StructureDisjoint,
       words |-> {<<"a","b">>, <<"b","a">>, <<"a","a","b">>}],
      [structure |-> StructureH,
       words |-> {<<"a","a","a">>, <<"a","a","b">>, <<"b","a","b">>,
                  <<"a","b","b">>, <<"a","b">>}],
      [structure |-> StructureRing,
       words |-> {<<"a","a","a">>, <<"a","a","b">>, <<"b","a","b">>,
                  <<"a","a","b","a">>, <<"b","a","a","a">>}] }

\* Crossword(structure, words): the words file may hold any part of the list
Crosswords ==
    UNION {{[variables |-> f.structure, words |-> d] :
                d \in {s \in SUBSET f.words : Cardinality(s) <= MaxWords}} :
           f \in PuzzleFiles}

-----------------------------------------------------------------------------
(* CrosswordCreator: node and arc consistency *)

\* CrosswordCreator.__init__: every slot starts with the whole dictionary
InitialDomains(cw) == [var \in cw.variables |-> cw.words]

\* node consistency that drops one wrong word per slot and run, as a loop
\* that removes from the set it iterates can
enforce_node_consistency_one(doms) ==
    [var \in DOMAIN doms |->
        LET wrong == {word \in doms[var] : Len(word) # var.length}
        IN  IF wrong = {} THEN doms[var]
            ELSE doms[var] \ {CHOOSE word \in wrong : TRUE}]

\* node consistency that keeps the words that are too long
enforce_node_consistency_longer(doms) ==
    [var \in DOMAIN doms |-> {word \in doms[var] : Len(word) >= var.length}]

enforce_node_consistency(doms) ==
    [var \in DOMAIN doms |-> {word \in doms[var] : Len(word) = var.length}]

\* revise that reports a revision whenever the slots overlap
revise_always_revised(doms, x, y) ==
    LET overlap == overlaps(x, y)
    IN  IF overlap = None
        THEN [domains |-> doms, revised |-> FALSE]
        ELSE LET unsatisfied ==
                    {word_x \in doms[x] :
                        ~ \E word_y \in doms[y] :
                            Char(word_x, overlap[1]) = Char(word_y, overlap[2])}
             IN  [domains |-> [doms EXCEPT ![x] = @ \ unsatisfied],
                  revised |-> TRUE]

\* revise with the index pair read the wrong way round: i taken for y's
\* word and j for x's
revise_swapped(doms, x, y) ==
    LET overlap == overlaps(x, y)
    IN  IF overlap = None
        THEN [domains |-> doms, revised |-> FALSE]
        ELSE LET i == overlap[2]
                 j == overlap[1]
                 unsatisfied ==
                    {word_x \in doms[x] :
                        ~ \E word_y \in doms[y] :
                            /\ i + 1 \in DOMAIN word_x
                            /\ j + 1 \in DOMAIN word_y
                            /\ Char(word_x, i) = Char(word_y, j)}
             IN  [domains |-> [doms EXCEPT ![x] = @ \ unsatisfied],
                  revised |-> unsatisfied # {}]

\* a revise that keeps a word of x only when every word of y agrees with it
revise_strict(doms, x, y) ==
    LET direct  == overlaps(x, y)
        swapped == overlaps(y, x)
        flipped == direct = None /\ swapped # None
        overlap == IF direct # None THEN direct ELSE swapped
    IN  IF overlap = None
        THEN [domains |-> doms, revised |-> FALSE]
        ELSE LET i == IF flipped THEN overlap[2] ELSE overlap[1]
                 j == IF flipped THEN overlap[1] ELSE overlap[2]
                 unsatisfied ==
                    {word_x \in doms[x] :
                        \E word_y \in doms[y] :
                            Char(word_x, i) # Char(word_y, j)}
             IN  [domains |-> [doms EXCEPT ![x] = @ \ unsatisfied],
                  revised |-> unsatisfied # {}]

\* crossword.py revise: the overlap is looked up under (x, y), then under
\* (y, x) with the indices flipped
revise(doms, x, y) ==
    LET direct  == overlaps(x, y)
        swapped == overlaps(y, x)
        flipped == direct = None /\ swapped # None
        overlap == IF direct # None THEN direct ELSE swapped
    IN  IF overlap = None
        THEN [domains |-> doms, revised |-> FALSE]
        ELSE LET i == IF flipped THEN overlap[2] ELSE overlap[1]
                 j == IF flipped THEN overlap[1] ELSE overlap[2]
                 unsatisfied ==
                    {word_x \in doms[x] :
                        ~ \E word_y \in doms[y] :
                            Char(word_x, i) = Char(word_y, j)}
             IN  [domains |-> [doms EXCEPT ![x] = @ \ unsatisfied],
                  revised |-> unsatisfied # {}]

\* revise that takes a missing overlap for a constraint nothing satisfies
revise_g_no_overlap(doms, x, y) ==
    LET overlap == overlaps(x, y)
    IN  IF overlap = None
        THEN [domains |-> [doms EXCEPT ![x] = {}], revised |-> doms[x] # {}]
        ELSE LET to_remove ==
                    {xword \in doms[x] :
                        ~ \E yword \in doms[y] :
                            Char(xword, overlap[1]) = Char(yword, overlap[2])}
             IN  [domains |-> [doms EXCEPT ![x] = @ \ to_remove],
                  revised |-> to_remove # {}]

\* revise that wants every word of y to match, not some word
revise_g_all(doms, x, y) ==
    LET overlap == overlaps(x, y)
    IN  IF overlap = None
        THEN [domains |-> doms, revised |-> FALSE]
        ELSE LET to_remove ==
                    {xword \in doms[x] :
                        ~ \A yword \in doms[y] :
                            Char(xword, overlap[1]) = Char(yword, overlap[2])}
             IN  [domains |-> [doms EXCEPT ![x] = @ \ to_remove],
                  revised |-> to_remove # {}]

\* generate.py revise
revise_g(doms, x, y) ==
    LET overlap == overlaps(x, y)
    IN  IF overlap = None
        THEN [domains |-> doms, revised |-> FALSE]
        ELSE LET i == overlap[1]
                 j == overlap[2]
                 to_remove ==
                    {xword \in doms[x] :
                        ~ \E yword \in doms[y] :
                            Char(xword, i) = Char(yword, j)}
             IN  IF to_remove # {}
                 THEN [domains |-> [doms EXCEPT ![x] = @ \ to_remove],
                       revised |-> TRUE]
                 ELSE [domains |-> doms, revised |-> FALSE]

\* ac3 without the check for an emptied domain
is_empty_unchecked(doms, x) == FALSE

\* ac3: len(self.domains[x]) == 0
is_empty(doms, x) == doms[x] = {}

\* self.revise(x, y) of the running variant
Revise(doms, x, y) ==
    IF variant = "generate" THEN revise_g(doms, x, y) ELSE revise(doms, x, y)

\* the arcs (x, y) for y in neighbors(x), in any iteration order
ArcsFrom(x, ys) ==
    {[k \in DOMAIN o |-> <<x, o[k]>>] : o \in Orders(ys)}

\* ac3(arcs=None): for x in variables, for y in neighbors(x)
RECURSIVE AllArcs(_)
AllArcs(variables) ==
    IF variables = {} THEN {<<>>}
    ELSE UNION {{first \o rest :
                    first \in ArcsFrom(x, neighbors(crossword, x)),
                    rest \in AllArcs(variables \ {x})} :
                x \in variables}

\* ac3 that appends nothing after a revision
Requeue_nothing(x, y) == {<<>>}

\* a re-enqueue that does not leave out the arc (y, x)
Requeue_every_neighbor(x, y) ==
    {[k \in DOMAIN o |-> <<o[k], x>>] :
        o \in Orders(neighbors(crossword, x))}

\* the arcs (z, x) appended after domain(x) shrank: neighbors(x) except y
Requeue(x, y) ==
    {[k \in DOMAIN o |-> <<o[k], x>>] :
        o \in Orders(neighbors(crossword, x) \ {y})}

\* a seed that holds no arc
SeedArcs_none(var) == {<<>>}

\* crossword.py backtrack: arcs (neighbor, var) for the neighbors of var
SeedArcs(var) ==
    {[k \in DOMAIN o |-> <<o[k], var>>] :
        o \in Orders(neighbors(crossword, var))}

-----------------------------------------------------------------------------
(* CrosswordCreator: assignments and heuristics *)

assignment_complete(a) == DOMAIN a = crossword.variables

\* a[var] = value on a dict
SetItem(a, var, value) ==
    [v \in (DOMAIN a) \cup {var} |-> IF v = var THEN value ELSE a[v]]

\* a del that leaves the entry in the dict
DelItem_keep(a, var) == a

\* del a[var]
DelItem(a, var) == [v \in (DOMAIN a) \ {var} |-> a[v]]

\* consistent without the check that all values are distinct
consistent_duplicates(a) ==
    \A var \in DOMAIN a :
        /\ Len(a[var]) = var.length
        /\ \A neighbor \in neighbors(crossword, var) :
            (neighbor \in DOMAIN a /\ overlaps(var, neighbor) # None) =>
                Char(a[var], overlaps(var, neighbor)[1])
                    = Char(a[neighbor], overlaps(var, neighbor)[2])

\* crossword.py consistent
consistent(a) ==
    /\ Cardinality({a[v] : v \in DOMAIN a}) = Cardinality(DOMAIN a)
    /\ \A var \in DOMAIN a :
        /\ Len(a[var]) = var.length
        /\ \A neighbor \in neighbors(crossword, var) :
            neighbor \in DOMAIN a =>
                LET direct  == overlaps(var, neighbor)
                    swapped == overlaps(neighbor, var)
                    flipped == direct = None /\ swapped # None
                    overlap == IF direct # None THEN direct ELSE swapped
                IN  overlap # None =>
                        LET i == IF flipped THEN overlap[2] ELSE overlap[1]
                            j == IF flipped THEN overlap[1] ELSE overlap[2]
                        IN  Char(a[var], i) = Char(a[neighbor], j)

\* consistent without the check of the overlaps
consistent_g_no_overlap(a) ==
    /\ Cardinality({a[v] : v \in DOMAIN a}) = Cardinality(DOMAIN a)
    /\ \A variable \in DOMAIN a : variable.length = Len(a[variable])

\* generate.py's consistent without the check that all values are distinct
consistent_g_duplicates(a) ==
    \A variable \in DOMAIN a :
        /\ variable.length = Len(a[variable])
        /\ \A neighbor \in neighbors(crossword, variable) :
            (overlaps(variable, neighbor) # None /\ neighbor \in DOMAIN a) =>
                Char(a[variable], overlaps(variable, neighbor)[1])
                    = Char(a[neighbor], overlaps(variable, neighbor)[2])

\* generate.py consistent
consistent_g(a) ==
    /\ Cardinality({a[v] : v \in DOMAIN a}) = Cardinality(DOMAIN a)
    /\ \A variable \in DOMAIN a :
        /\ variable.length = Len(a[variable])
        /\ \A neighbor \in neighbors(crossword, variable) :
            LET overlap == overlaps(variable, neighbor)
            IN  (overlap # None /\ neighbor \in DOMAIN a) =>
                    Char(a[variable], overlap[1]) = Char(a[neighbor], overlap[2])

\* self.consistent(assignment) of the running variant
Consistent(a) ==
    IF variant = "generate" THEN consistent_g(a) ELSE consistent(a)

RECURSIVE SumOver(_, _)
SumOver(S, f) ==
    IF S = {} THEN 0
    ELSE LET e == CHOOSE e \in S : TRUE
         IN  f[e] + SumOver(S \ {e}, f)

\* a count of the neighbor candidates the value agrees with
eliminated_agreeing(doms, var, a, value) ==
    LET unassigned == {n \in neighbors(crossword, var) : n \notin DOMAIN a}
        count == [neighbor \in unassigned |->
                    LET overlap == overlaps(var, neighbor)
                    IN  Cardinality({w \in doms[neighbor] :
                            Char(value, overlap[1]) = Char(w, overlap[2])})]
    IN  SumOver(unassigned, count)

\* number of neighbor candidates the value rules out (unassigned neighbors)
eliminated(doms, var, a, value) ==
    LET open == {n \in neighbors(crossword, var) : n \notin DOMAIN a}
        count == [neighbor \in open |->
                    LET overlap == overlaps(var, neighbor)
                    IN  Cardinality({w \in doms[neighbor] :
                            Char(value, overlap[1]) # Char(w, overlap[2])})]
    IN  SumOver(open, count)

\* an ordering that leaves out the value with the highest count
order_domain_values_but_last(doms, var, a) ==
    {SubSeq(s, 1, IF Len(s) >= 2 THEN Len(s) - 1 ELSE Len(s)) :
        s \in {t \in Orders(doms[var]) :
            \A k \in 1..(Len(t) - 1) :
                eliminated(doms, var, a, t[k])
                    <= eliminated(doms, var, a, t[k + 1])}}

\* sorted(...) is stable over the set's iteration order: every order of the
\* domain that is non-decreasing in the eliminated count can come out
order_domain_values(doms, var, a) ==
    {s \in Orders(doms[var]) :
        \A k \in 1..(Len(s) - 1) :
            eliminated(doms, var, a, s[k]) <= eliminated(doms, var, a, s[k + 1])}

\* sort key with the degree not negated: fewest neighbors first
KeyLess_fewest_neighbors(doms, u, v) ==
    LET du == Cardinality(doms[u])
        dv == Cardinality(doms[v])
        nu == Cardinality(neighbors(crossword, u))
        nv == Cardinality(neighbors(crossword, v))
    IN  du < dv \/ (du = dv /\ nu < nv)

\* sort key with the domain size negated: largest domain first
KeyLess_largest_domain(doms, u, v) ==
    LET du == Cardinality(doms[u])
        dv == Cardinality(doms[v])
        nu == 0 - Cardinality(neighbors(crossword, u))
        nv == 0 - Cardinality(neighbors(crossword, v))
    IN  du > dv \/ (du = dv /\ nu < nv)

\* sort key (len(domain), -degree), compared as tuples
KeyLess(doms, u, v) ==
    LET du == Cardinality(doms[u])
        dv == Cardinality(doms[v])
        nu == 0 - Cardinality(neighbors(crossword, u))
        nv == 0 - Cardinality(neighbors(crossword, v))
    IN  du < dv \/ (du = dv /\ nu < nv)

\* a selection that ignores the sort key: any unassigned slot
select_any_unassigned(doms, a) ==
    {v \in crossword.variables : v \notin DOMAIN a}

\* first element after a stable sort by key: any unassigned slot that no
\* other unassigned slot beats
select_unassigned_variable(doms, a) ==
    LET unassigned == {v \in crossword.variables : v \notin DOMAIN a}
    IN  {v \in unassigned : \A u \in unassigned : ~ KeyLess(doms, u, v)}

-----------------------------------------------------------------------------
(* The program: main / solve, ac3's loop, backtrack's frames *)

Variants == {"crossword", "generate"}

Init ==
    /\ crossword \in Crosswords
    /\ variant \in Variants
    /\ domains = InitialDomains(crossword)
    /\ pc = "main"
    /\ caller = None
    /\ queue = <<>>
    /\ ret = None
    /\ stack = <<>>
    /\ assignment = EmptyDict
    /\ result = NotReturned

\* main / solve: creator.enforce_node_consistency()
EnforceNodeConsistency ==
    /\ pc = "main"
    /\ domains' = enforce_node_consistency(domains)
    /\ pc' = "node_consistent"
    /\ UNCHANGED <<crossword, variant, caller, queue, ret, stack,
                   assignment, result>>

\* main / solve: creator.ac3() with arcs=None builds the full worklist
Ac3All ==
    /\ pc = "node_consistent"
    /\ queue' \in AllArcs(crossword.variables)
    /\ caller' = "main"
    /\ ret' = None
    /\ pc' = "ac3"
    /\ UNCHANGED <<crossword, variant, domains, stack, assignment, result>>

\* a loop turn that reads the oldest arc and leaves it in the worklist
Ac3Step_peek ==
    /\ pc = "ac3"
    /\ queue # <<>>
    /\ LET x == Head(queue)[1]
           y == Head(queue)[2]
           r == Revise(domains, x, y)
       IN  /\ domains' = r.domains
           /\ IF r.revised
              THEN IF is_empty(r.domains, x)
                   THEN /\ queue' = queue
                        /\ ret' = False
                        /\ pc' = "ac3_returned"
                   ELSE /\ \E more \in Requeue(x, y) :
                                queue' = queue \o more
                        /\ UNCHANGED <<ret, pc>>
              ELSE UNCHANGED <<queue, ret, pc>>
    /\ UNCHANGED <<crossword, variant, caller, stack, assignment, result>>

\* one turn of ac3's while loop: pop the oldest arc, revise, fail or requeue
Ac3Step ==
    /\ pc = "ac3"
    /\ queue # <<>>
    /\ LET x == Head(queue)[1]
           y == Head(queue)[2]
           r == Revise(domains, x, y)
       IN  /\ domains' = r.domains
           /\ IF r.revised
              THEN IF is_empty(r.domains, x)
                   THEN /\ queue' = Tail(queue)
                        /\ ret' = False
                        /\ pc' = "ac3_returned"
                   ELSE /\ \E more \in Requeue(x, y) :
                                queue' = Tail(queue) \o more
                        /\ UNCHANGED <<ret, pc>>
              ELSE /\ queue' = Tail(queue)
                   /\ UNCHANGED <<ret, pc>>
    /\ UNCHANGED <<crossword, variant, caller, stack, assignment, result>>

\* ac3: the worklist is empty, return True
Ac3ReturnTrue ==
    /\ pc = "ac3"
    /\ queue = <<>>
    /\ ret' = True
    /\ pc' = "ac3_returned"
    /\ UNCHANGED <<crossword, variant, domains, caller, queue, stack,
                   assignment, result>>

\* a new backtrack activation: its parameter, the slot it chose, the values
\* still to try (the head is the one being tried), and the locals
\* new_assignment and saved_domains, which keep their last value between
\* iterations; entry_domains records self.domains as the call began
Frame(a, var, values) ==
    [assignment |-> a, var |-> var, values |-> values,
     new_assignment |-> Unbound, saved_domains |-> Unbound,
     entry_domains |-> domains]

\* entry of backtrack(a): return a when complete, else choose the slot, order
\* its values and start the loop
EnterBacktrack(a) ==
    IF assignment_complete(a)
    THEN /\ result' = Success(a)
         /\ pc' = "returned"
         /\ stack' = stack
    ELSE /\ \E var \in select_unassigned_variable(domains, a) :
            \E values \in order_domain_values(domains, var, a) :
                stack' = Append(stack, Frame(a, var, values))
         /\ pc' = "loop"
         /\ result' = NotReturned

\* the top frame with some fields replaced
Top == stack[Len(stack)]

SetTop(f) == [stack EXCEPT ![Len(stack)] = f]

\* main / solve: the result of ac3 is dropped, backtrack(dict()) is called
MainBacktrack ==
    /\ pc = "ac3_returned"
    /\ caller = "main"
    /\ EnterBacktrack(assignment)
    /\ UNCHANGED <<crossword, variant, domains, caller, queue, ret,
                   assignment>>

\* crossword.py backtrack, loop body up to the ac3 call: copy, extend, check;
\* when consistent, snapshot the domains, narrow var and seed the worklist
TryValue ==
    /\ variant = "crossword"
    /\ pc = "loop"
    /\ Top.values # <<>>
    /\ LET var == Top.var
           value == Head(Top.values)
           new_assignment == SetItem(Top.assignment, var, value)
       IN  IF consistent(new_assignment)
           THEN /\ stack' = SetTop([Top EXCEPT
                                    !.new_assignment = new_assignment,
                                    !.saved_domains = domains])
                /\ domains' = [domains EXCEPT ![var] = {value}]
                /\ queue' \in SeedArcs(var)
                /\ caller' = "backtrack"
                /\ ret' = None
                /\ pc' = "ac3"
           ELSE /\ stack' = SetTop([Top EXCEPT
                                    !.new_assignment = new_assignment,
                                    !.values = Tail(@)])
                /\ UNCHANGED <<domains, queue, caller, ret, pc>>
    /\ UNCHANGED <<crossword, variant, assignment, result>>

\* a restore that leaves self.domains as the failed branch left it
Restore_keep(saved_domains) == domains

\* a restore that goes back to the node-consistent domains
Restore_widen(saved_domains) ==
    enforce_node_consistency(InitialDomains(crossword))

\* restore domains: self.domains = copy of saved_domains
Restore(saved_domains) == [v \in DOMAIN saved_domains |-> saved_domains[v]]

\* crossword.py backtrack: the seeded ac3 returned True, recurse
Recurse ==
    /\ pc = "ac3_returned"
    /\ caller = "backtrack"
    /\ ret = True
    /\ EnterBacktrack(Top.new_assignment)
    /\ UNCHANGED <<crossword, variant, domains, caller, queue, ret,
                   assignment>>

\* crossword.py backtrack: the seeded ac3 returned False, or the recursive
\* call returned None: restore the domains and go on with the next value
RestoreDomains ==
    /\ variant = "crossword"
    /\ stack # <<>>
    /\ \/ pc = "ac3_returned" /\ caller = "backtrack" /\ ret = False
       \/ pc = "returned" /\ result = Failure
    /\ domains' = Restore(Top.saved_domains)
    /\ stack' = SetTop([Top EXCEPT !.values = Tail(@)])
    /\ pc' = "loop"
    /\ UNCHANGED <<crossword, variant, caller, queue, ret, assignment,
                   result>>

\* generate.py backtrack, loop body: assignment[var] = value; recurse when
\* consistent, else del assignment[var] and go on with the next value
TryValueG ==
    /\ variant = "generate"
    /\ pc = "loop"
    /\ Top.values # <<>>
    /\ LET var == Top.var
           value == Head(Top.values)
           extended == SetItem(assignment, var, value)
       IN  IF consistent_g(extended)
           THEN /\ assignment' = extended
                /\ EnterBacktrack(extended)
           ELSE /\ assignment' = DelItem(extended, var)
                /\ stack' = SetTop([Top EXCEPT !.values = Tail(@)])
                /\ UNCHANGED <<pc, result>>
    /\ UNCHANGED <<crossword, variant, domains, caller, queue, ret>>

\* generate.py backtrack: the recursive call returned None:
\* del assignment[var], next value
DelValueG ==
    /\ variant = "generate"
    /\ stack # <<>>
    /\ pc = "returned"
    /\ result = Failure
    /\ assignment' = DelItem(assignment, Top.var)
    /\ stack' = SetTop([Top EXCEPT !.values = Tail(@)])
    /\ pc' = "loop"
    /\ UNCHANGED <<crossword, variant, domains, caller, queue, ret, result>>

\* a return of None that does not wait for the values to run out
ReturnNone_early ==
    /\ pc = "loop"
    /\ stack' = SubSeq(stack, 1, Len(stack) - 1)
    /\ result' = Failure
    /\ pc' = "returned"
    /\ UNCHANGED <<crossword, variant, domains, caller, queue, ret,
                   assignment>>

\* backtrack: every value was tried, return None
ReturnNone ==
    /\ pc = "loop"
    /\ Top.values = <<>>
    /\ stack' = SubSeq(stack, 1, Len(stack) - 1)
    /\ result' = Failure
    /\ pc' = "returned"
    /\ UNCHANGED <<crossword, variant, domains, caller, queue, ret,
                   assignment>>

\* a return of the result that first restores the domains
ReturnResult_restore ==
    /\ pc = "returned"
    /\ stack # <<>>
    /\ result # Failure
    /\ stack' = SubSeq(stack, 1, Len(stack) - 1)
    /\ domains' = Restore(Top.saved_domains)
    /\ UNCHANGED <<crossword, variant, pc, caller, queue, ret,
                   assignment, result>>

\* backtrack: the recursive call returned an assignment, return it as it is
ReturnResult ==
    /\ pc = "returned"
    /\ stack # <<>>
    /\ result # Failure
    /\ stack' = SubSeq(stack, 1, Len(stack) - 1)
    /\ UNCHANGED <<crossword, variant, domains, pc, caller, queue, ret,
                   assignment, result>>

\* main: backtrack(dict()) has returned to the top level
MainDone ==
    /\ pc = "returned"
    /\ stack = <<>>
    /\ pc' = "done"
    /\ UNCHANGED <<crossword, variant, domains, caller, queue, ret, stack,
                   assignment, result>>

Next ==
    \/ EnforceNodeConsistency
    \/ Ac3All
    \/ Ac3Step
    \/ Ac3ReturnTrue
    \/ MainBacktrack
    \/ TryValue
    \/ Recurse
    \/ RestoreDomains
    \/ TryValueG
    \/ DelValueG
    \/ ReturnNone
    \/ ReturnResult
    \/ MainDone

Spec == Init /\ [][Next]_vars

\* the puzzles whose words file holds as many words of the list as
\* MaxWords allows: the longest runs of ac3
InitFair ==
    /\ Init
    /\ \E f \in PuzzleFiles :
        /\ crossword.variables = f.structure
        /\ crossword.words = f.words
                \/ Cardinality(crossword.words) = MaxWords

\* the interpreter runs the one thread of main on: inside ac3 the next
\* iteration of the while loop, or the return after it, is taken
SpecFair ==
    InitFair /\ [][Next]_vars /\ WF_vars(Ac3Step) /\ WF_vars(Ac3ReturnTrue)

\* the same puzzles and the same thread, for the search: every statement of
\* backtrack, of the ac3 it calls and of main's return from it is taken
SpecFairSearch ==
    /\ InitFair
    /\ [][Next]_vars
    /\ WF_vars(Ac3Step) /\ WF_vars(Ac3ReturnTrue)
    /\ WF_vars(MainBacktrack) /\ WF_vars(TryValue) /\ WF_vars(Recurse)
    /\ WF_vars(RestoreDomains) /\ WF_vars(TryValueG) /\ WF_vars(DelValueG)
    /\ WF_vars(ReturnNone) /\ WF_vars(ReturnResult) /\ WF_vars(MainDone)

-----------------------------------------------------------------------------
(* enforce_node_consistency and revise called one at a time, as a test     *)
(* would call them: either method, on the store the earlier calls left.    *)
(* pc names the method that returned last, stack holds the arguments of    *)
(* that call and ret the value revise returned.                            *)

\* every word of every domain has its slot's length: what main establishes
\* before any method reads a letter of a word
LengthsHold(doms) ==
    \A v \in DOMAIN doms : \A w \in doms[v] : Len(w) = v.length

InitCalls ==
    /\ crossword \in Crosswords
    /\ variant \in Variants
    /\ domains = InitialDomains(crossword)
    /\ pc = "created"
    /\ caller = "test"
    /\ queue = <<>>
    /\ ret = None
    /\ stack = <<>>
    /\ assignment = EmptyDict
    /\ result = NotReturned

\* creator.enforce_node_consistency()
CallEnforceNodeConsistency ==
    /\ domains' = enforce_node_consistency(domains)
    /\ pc' = "enforce_node_consistency"
    /\ stack' = <<>>
    /\ ret' = None
    /\ UNCHANGED <<crossword, variant, caller, queue, assignment, result>>

\* creator.revise(x, y) for two distinct slots; a pair that shares a cell
\* needs words of the right lengths
CallRevise ==
    /\ \E x, y \in crossword.variables :
        /\ x # y
        /\ overlaps(x, y) # None => LengthsHold(domains)
        /\ LET r == Revise(domains, x, y)
           IN  /\ domains' = r.domains
               /\ ret' = IF r.revised THEN True ELSE False
               /\ stack' = <<[x |-> x, y |-> y]>>
    /\ pc' = "revise"
    /\ UNCHANGED <<crossword, variant, caller, queue, assignment, result>>

NextCalls ==
    \/ CallEnforceNodeConsistency
    \/ CallRevise

SpecCalls == InitCalls /\ [][NextCalls]_vars

-----------------------------------------------------------------------------
(* Vocabulary of the properties, stated on the puzzle itself *)

IsSuccess(r) == r.returned /\ ~ r.none

IsFailure(r) == r.returned /\ r.none

\* the words of a are pairwise distinct, have their slot's length, and any
\* two assigned slots that share a cell carry the same letter there
ValidAssignment(a) ==
    /\ \A u, v \in DOMAIN a : u # v => a[u] # a[v]
    /\ \A v \in DOMAIN a : Len(a[v]) = v.length
    /\ \A u, v \in DOMAIN a :
        (u # v /\ overlaps(u, v) # None) =>
            Char(a[u], overlaps(u, v)[1]) = Char(a[v], overlaps(u, v)[2])

IsSolution(a) ==
    /\ DOMAIN a = crossword.variables
    /\ ValidAssignment(a)

\* some word of doms[y] carries, at the shared cell, the letter w has there
Supported(doms, x, y, w) ==
    \E w2 \in doms[y] :
        Char(w, overlaps(x, y)[1]) = Char(w2, overlaps(x, y)[2])

ArcConsistent(doms) ==
    \A x \in crossword.variables :
        \A y \in neighbors(crossword, x) :
            \A w \in doms[x] : Supported(doms, x, y, w)

\* the dictionary words of the slot's length
WordsOfLength(v) == {w \in crossword.words : Len(w) = v.length}

-----------------------------------------------------------------------------
(* Properties *)

\* C1: whenever backtrack returns a non-failure result, the result assigns a
\* word to every slot, the words are pairwise distinct, each has its slot's
\* length and overlapping slots agree on the shared letter; nothing partial
\* is returned.
C1_ResultIsSolution ==
    IsSuccess(result) => IsSolution(result.value)

\* the search came back to main with a full grid of four slots
C1_Witness ==
    /\ pc = "done"
    /\ IsSuccess(result)
    /\ Cardinality(DOMAIN result.value) = 4

\* C2: when the top-level search returns None, no complete assignment drawn
\* from the original dictionary is pairwise distinct, of the right lengths
\* and in agreement on every overlap.
C2_FailureMeansNoSolution ==
    (pc = "done" /\ IsFailure(result)) =>
        ~ \E a \in [crossword.variables -> crossword.words] : IsSolution(a)

\* a failed search that had values to try in every slot
C2_Witness ==
    /\ pc = "done"
    /\ IsFailure(result)
    /\ ret = True
    /\ \A v \in crossword.variables : Cardinality(domains[v]) >= 1
    /\ \E v \in crossword.variables : Cardinality(domains[v]) >= 2

\* C3: in backtrack, whenever the next value is about to be tried or the
\* call is about to return None, every slot's domain is what it was when the
\* call was entered: each failed value's narrowing and pruning was undone.
C3_DomainsRestored ==
    pc = "loop" => domains = Top.entry_domains

\* a value was narrowed, failed and was undone, in a slot with other values
C3_Witness ==
    /\ variant = "crossword"
    /\ pc = "loop"
    /\ DOMAIN Top.saved_domains # {}
    /\ Cardinality(domains[Top.var]) >= 2
    /\ Top.values # <<>>

\* C4, as claimed: after the initial ac3 pass returned False no backtrack
\* call is ever made.
C4_NoBacktrackAfterFailedAc3 ==
    (caller = "main" /\ ret = False) => (stack = <<>> /\ pc # "loop")

\* C4, amended: after the initial ac3 pass returned False, backtrack is
\* still called on the empty assignment; that one call finds no value to
\* try, calls nothing further and returns None.
C4_FailedAc3ThenEmptySearch ==
    (caller = "main" /\ ret = False) =>
        /\ Len(stack) <= 1
        /\ stack # <<>> =>
            /\ Top.assignment = EmptyDict
            /\ Top.values = <<>>
            /\ domains[Top.var] = {}
        /\ ~ IsSuccess(result)
        /\ pc = "done" => IsFailure(result)

\* main got None from the call made after the failed pass
C4_Witness ==
    /\ pc = "done"
    /\ caller = "main"
    /\ ret = False
    /\ IsFailure(result)

\* C5: after revise(x, y) every word left in domain(x) has a supporting word
\* in domain(y) at the overlap, and every word it removed had none when the
\* call was made.
C5_ReviseSound ==
    [][(pc = "ac3" /\ queue # <<>>) =>
        LET x == Head(queue)[1]
            y == Head(queue)[2]
        IN  /\ \A w \in domains'[x] : Supported(domains', x, y, w)
            /\ \A w \in domains[x] \ domains'[x] :
                    ~ Supported(domains, x, y, w)]_vars

\* inside the first pass, a domain lost some of its words and kept others
C5_Witness ==
    /\ pc = "ac3"
    /\ caller = "main"
    /\ \E v \in crossword.variables :
        /\ domains[v] # {}
        /\ domains[v] # WordsOfLength(v)

\* C6: when ac3 over all arcs returns True, every word of every domain has a
\* supporting word in each neighbor's domain, and revise on any neighbor
\* pair would remove nothing and return False.
C6_FullAc3ArcConsistent ==
    (pc = "ac3_returned" /\ caller = "main" /\ ret = True) =>
        /\ ArcConsistent(domains)
        /\ \A x \in crossword.variables :
            \A y \in neighbors(crossword, x) :
                /\ ~ Revise(domains, x, y).revised
                /\ Revise(domains, x, y).domains = domains

\* the first pass returned True after pruning, with no domain empty
C6_Witness ==
    /\ pc = "ac3_returned"
    /\ caller = "main"
    /\ ret = True
    /\ \A v \in crossword.variables : domains[v] # {}
    /\ \E v \in crossword.variables : domains[v] # WordsOfLength(v)

\* the domains ac3 was called with: the node-consistent dictionary in main,
\* the snapshot with var narrowed to the value in backtrack
CallTimeDomains ==
    IF caller = "main"
    THEN [v \in crossword.variables |-> WordsOfLength(v)]
    ELSE [Top.saved_domains EXCEPT ![Top.var] = {Head(Top.values)}]

\* C7: ac3 returns False exactly when a revise call empties the domain it
\* revises, in that very turn and with the rest of the worklist untouched;
\* it returns True exactly when the worklist is empty, and then every domain
\* that was non-empty at the call is still non-empty.
C7_Ac3Result ==
    /\ [][(pc = "ac3" /\ queue # <<>>) =>
            LET x == Head(queue)[1]
            IN  IF domains[x] # {} /\ domains'[x] = {}
                THEN /\ pc' = "ac3_returned"
                     /\ ret' = False
                     /\ queue' = Tail(queue)
                ELSE /\ pc' = "ac3"
                     /\ ret' = ret]_vars
    /\ [][(pc = "ac3" /\ pc' = "ac3_returned") =>
            /\ ret' = True <=> queue = <<>>
            /\ ret' = False <=>
                (queue # <<>> /\ domains'[Head(queue)[1]] = {})]_vars
    /\ [](pc = "ac3_returned" /\ ret = True =>
            \A v \in crossword.variables :
                CallTimeDomains[v] # {} => domains[v] # {})

\* ac3 returned False and arcs were still waiting in the worklist
C7_Witness ==
    /\ pc = "ac3_returned"
    /\ ret = False
    /\ queue # <<>>
    /\ \E v \in crossword.variables : domains[v] = {} /\ CallTimeDomains[v] # {}

\* C8: once enforce_node_consistency has run, every word in every domain
\* has the length of its slot, whatever revise, ac3, narrowing and restore
\* did since.
C8_DomainLengths ==
    pc # "main" =>
        \A v \in crossword.variables :
            \A w \in domains[v] : Len(w) = v.length

\* domains were narrowed, pruned and restored, with a dictionary that holds
\* words of other lengths
C8_Witness ==
    /\ variant = "crossword"
    /\ pc = "loop"
    /\ DOMAIN Top.saved_domains # {}
    /\ \A v \in crossword.variables : domains[v] # {}
    /\ \E v \in crossword.variables : WordsOfLength(v) # crossword.words

\* C9: every assignment a backtrack call was given has pairwise distinct
\* words of the right lengths that agree on the overlap of every pair of
\* assigned neighbors.
C9_PassedAssignmentsValid ==
    \A k \in 1..Len(stack) : ValidAssignment(stack[k].assignment)

\* a call that was given two assigned slots
C9_Witness ==
    /\ stack # <<>>
    /\ Cardinality(DOMAIN Top.assignment) >= 2

\* C10: once a backtrack call has returned an assignment, each step pops
\* one enclosing frame with the same result, then main takes it; no domain
\* and no assignment changes and no further value is tried.
C10_SuccessShortCircuits ==
    [][IsSuccess(result) =>
        /\ result' = result
        /\ domains' = domains
        /\ assignment' = assignment
        /\ IF stack # <<>>
           THEN stack' = SubSeq(stack, 1, Len(stack) - 1) /\ pc' = "returned"
           ELSE stack' = stack /\ pc' = "done"]_vars

\* the result is on its way up: some frames have returned it, others wait
C10_Witness ==
    /\ variant = "crossword"
    /\ pc = "returned"
    /\ IsSuccess(result)
    /\ stack # <<>>
    /\ Len(stack) < Cardinality(crossword.variables)
    /\ \E v \in crossword.variables : domains[v] # Top.entry_domains[v]

\* C11: revise(x, y) returns True exactly when it removed a word from
\* domain(x); it only removes from domain(x) and leaves every other domain,
\* domain(y) included, as it was.
C11_ReviseFrame ==
    [][pc' = "revise" =>
        LET x == stack'[1].x
        IN  /\ domains'[x] \subseteq domains[x]
            /\ ret' = True <=> domains'[x] # domains[x]
            /\ \A v \in crossword.variables \ {x} :
                    domains'[v] = domains[v]]_vars

\* a call of revise that removed some words of x and kept others
C11_Witness ==
    /\ pc = "revise"
    /\ ret = True
    /\ domains[stack[1].x] # {}
    /\ domains[stack[1].y] # {}

\* C12: revise(x, y) on two distinct slots that share no cell changes no
\* domain and returns False, whatever the domains hold.
C12_ReviseWithoutOverlap ==
    [][(/\ pc' = "revise"
        /\ overlaps(stack'[1].x, stack'[1].y) = None
        /\ overlaps(stack'[1].y, stack'[1].x) = None) =>
            /\ domains' = domains
            /\ ret' = False]_vars

\* revise returned from a pair without overlap whose domains hold words,
\* some of them of the wrong length
C12_Witness ==
    /\ pc = "revise"
    /\ overlaps(stack[1].x, stack[1].y) = None
    /\ ret = False
    /\ domains[stack[1].x] # {}
    /\ ~ LengthsHold(domains)

Degree(v) == Cardinality(neighbors(crossword, v))

\* C13: the slot select_unassigned_variable returns is unassigned, has a
\* domain of minimal size among the unassigned slots and, among those of
\* that size, a maximal number of neighbors.
C13_SelectMrvDegree ==
    \A k \in 1..Len(stack) :
        LET f == stack[k]
            unassigned == crossword.variables \ DOMAIN f.assignment
            size(v) == Cardinality(f.entry_domains[v])
        IN  /\ f.var \in unassigned
            /\ \A u \in unassigned : size(f.var) <= size(u)
            /\ \A u \in unassigned :
                    size(u) = size(f.var) => Degree(u) <= Degree(f.var)

\* a frame's selection passed over a slot with a larger domain
PassedLargerDomain(f) ==
    \E u \in crossword.variables \ DOMAIN f.assignment :
        Cardinality(f.entry_domains[u]) > Cardinality(f.entry_domains[f.var])

\* a frame's selection broke a tie of domain sizes by the degree
BrokeTieByDegree(f) ==
    \E u \in crossword.variables \ DOMAIN f.assignment :
        /\ Cardinality(f.entry_domains[u])
             = Cardinality(f.entry_domains[f.var])
        /\ Degree(u) < Degree(f.var)

\* a search path on which one selection was decided by the domain size and
\* one by the degree
C13_Witness ==
    /\ \E j \in 1..Len(stack) : PassedLargerDomain(stack[j])
    /\ \E k \in 1..Len(stack) : BrokeTieByDegree(stack[k])

\* the conflict score of w: the pairs (unassigned neighbor n, word w2 of
\* domain(n)) with w and w2 differing at the cell var and n share
Score(doms, var, a, w) ==
    Cardinality(UNION {
        {<<n, w2>> : w2 \in {c \in doms[n] :
            Char(w, overlaps(var, n)[1]) # Char(c, overlaps(var, n)[2])}} :
        n \in neighbors(crossword, var) \ DOMAIN a})

\* C14: order_domain_values returns every word of domain(var) exactly once,
\* in non-decreasing order of conflict score, where assigned neighbors
\* count for nothing; the call changes no domain and no assignment.
C14_OrderIsSortedPermutation ==
    [][Len(stack') = Len(stack) + 1 =>
        LET f == stack'[Len(stack')]
            values == f.values
            score(w) == Score(domains, f.var, f.assignment, w)
        IN  /\ Len(values) = Cardinality(domains[f.var])
            /\ {values[k] : k \in 1..Len(values)} = domains[f.var]
            /\ \A k \in 1..(Len(values) - 1) :
                    score(values[k]) <= score(values[k + 1])
            /\ domains' = domains
            /\ assignment' = IF variant = "generate"
                             THEN f.assignment ELSE assignment]_vars

\* a fresh ordering of two or more words with different scores, for a slot
\* that has an assigned and an unassigned neighbor
C14_Witness ==
    /\ stack # <<>>
    /\ pc = "loop"
    /\ domains = Top.entry_domains
    /\ Len(Top.values) = Cardinality(domains[Top.var])
    /\ Len(Top.values) >= 2
    /\ Score(domains, Top.var, Top.assignment, Top.values[1])
         < Score(domains, Top.var, Top.assignment, Top.values[Len(Top.values)])
    /\ \E n \in neighbors(crossword, Top.var) : n \in DOMAIN Top.assignment
    /\ \E n \in neighbors(crossword, Top.var) : n \notin DOMAIN Top.assignment

\* two slots of one length that share no cell, and a dictionary with exactly
\* one word of that length
OneWordForTwoSlots ==
    /\ crossword.variables = StructureDisjoint
    /\ \A v \in crossword.variables : Cardinality(WordsOfLength(v)) = 1

\* C15: with two same-length slots that do not overlap and one word of that
\* length, the first ac3 pass returns True with both domains non-empty, the
\* second slot's only value is rejected by consistent, and the search
\* returns failure.
C15_DuplicateCaughtByConsistent ==
    OneWordForTwoSlots =>
        /\ (pc = "ac3_returned" /\ caller = "main") =>
                (ret = True /\ \A v \in crossword.variables : domains[v] # {})
        /\ (pc = "loop" /\ Len(stack) = 2 /\ Top.values # <<>>) =>
                ~ Consistent(SetItem(IF variant = "generate"
                                     THEN assignment ELSE Top.assignment,
                                     Top.var, Head(Top.values)))
        /\ Len(stack) <= 2
        /\ ~ IsSuccess(result)
        /\ pc = "done" => IsFailure(result)

\* the search over the one-word puzzle has failed after the second slot's
\* frame was entered and left
C15_Witness ==
    /\ OneWordForTwoSlots
    /\ pc = "done"
    /\ IsFailure(result)
    /\ ret = True
    /\ \A v \in crossword.variables : domains[v] # {}

\* C16: running enforce_node_consistency again on the store a run of it
\* left changes no domain.
C16_NodeConsistencyIdempotent ==
    pc = "enforce_node_consistency" =>
        enforce_node_consistency(domains) = domains

\* a run that took two or more words of a wrong length out of a domain and
\* left a word in it
C16_Witness ==
    /\ pc = "enforce_node_consistency"
    /\ \E v \in crossword.variables :
        /\ Cardinality(crossword.words \ domains[v]) >= 2
        /\ domains[v] # {}

\* C17: a call of backtrack on given domains and a given assignment can
\* choose only one slot and only one order of its values: the frame it
\* starts is the only one it could start.
C17_OneChoice ==
    [][Len(stack') = Len(stack) + 1 =>
        LET a == stack'[Len(stack')].assignment
        IN  \A var \in select_unassigned_variable(domains, a) :
                \A values \in order_domain_values(domains, var, a) :
                    stack' = Append(stack, Frame(a, var, values))]_vars

\* C18: when every arc was consistent as backtrack saved the domains, a
\* True return of the ac3 seeded with the arcs (neighbor, var) leaves every
\* arc of the puzzle consistent.
C18_SeededAc3ArcConsistent ==
    (/\ pc = "ac3_returned"
     /\ caller = "backtrack"
     /\ ret = True
     /\ ArcConsistent(Top.saved_domains)) => ArcConsistent(domains)

\* a seeded pass that returned True after pruning a slot that is neither var
\* nor a neighbor of var
C18_Witness ==
    /\ pc = "ac3_returned"
    /\ caller = "backtrack"
    /\ ret = True
    /\ ArcConsistent(Top.saved_domains)
    /\ \E v \in crossword.variables \
                    (neighbors(crossword, Top.var) \union {Top.var}) :
            domains[v] # Top.saved_domains[v]

\* C19: a step of ac3's loop revises the oldest arc (x, y) and keeps the
\* others in their order; when revise changed domain(x) and left a word in
\* it, the arcs (z, x) for the neighbors z of x other than y are appended,
\* each once; otherwise nothing is appended.
C19_FifoAndRequeue ==
    [][(pc = "ac3" /\ queue # <<>>) =>
        LET x == Head(queue)[1]
            y == Head(queue)[2]
            kept == Len(queue) - 1
            added == SubSeq(queue', kept + 1, Len(queue'))
        IN  /\ \A v \in crossword.variables \ {x} : domains'[v] = domains[v]
            /\ domains'[x] = {w \in domains[x] : Supported(domains, x, y, w)}
            /\ Len(queue') >= kept
            /\ SubSeq(queue', 1, kept) = Tail(queue)
            /\ IF domains'[x] # domains[x] /\ domains'[x] # {}
               THEN /\ {added[k] : k \in 1..Len(added)}
                        = {<<z, x>> : z \in neighbors(crossword, x) \ {y}}
                    /\ Len(added)
                        = Cardinality(neighbors(crossword, x) \ {y})
               ELSE added = <<>>]_vars

\* the arcs of the puzzle
Arcs == {a \in crossword.variables \X crossword.variables :
            a[2] \in neighbors(crossword, a[1])}

\* a full pass in which arcs were appended: a domain is smaller than node
\* consistency left it, and the worklist is as long as it was at the start
C19_Witness ==
    /\ pc = "ac3"
    /\ caller = "main"
    /\ Len(queue) >= Cardinality(Arcs)
    /\ \E v \in crossword.variables : domains[v] # WordsOfLength(v)

\* C20: every call of ac3 returns.
C20_Ac3Terminates == (pc = "ac3") ~> (pc = "ac3_returned")

\* an ac3 that returned True after it had appended arcs: a slot two arcs
\* away from the narrowed one lost a word
C20_Witness ==
    /\ pc = "ac3_returned"
    /\ ret = True
    /\ caller = "backtrack"
    /\ \E v \in crossword.variables \
                    (neighbors(crossword, Top.var) \union {Top.var}) :
            Cardinality(domains[v]) < Cardinality(Top.saved_domains[v])

\* C22: the parameter of a backtrack call is never rewritten, a recursive
\* call gets the caller's assignment with one more entry, generate.py's
\* shared dict changes by one entry at a time, and when a call returns
\* failure the assignment it was given has the entries it had on entry.
C22_AssignmentRestored ==
    [][/\ \A k \in 1..Len(stack) :
            k <= Len(stack') => stack'[k].assignment = stack[k].assignment
       /\ (Len(stack') = Len(stack) + 1 /\ stack # <<>>) =>
            stack'[Len(stack')].assignment
                = SetItem(Top.assignment, Top.var, Head(Top.values))
       /\ variant = "generate" =>
            \/ assignment' = assignment
            \/ \E v \in crossword.variables \ DOMAIN assignment :
                \E w \in crossword.words :
                    assignment' = SetItem(assignment, v, w)
            \/ \E v \in DOMAIN assignment :
                    assignment' = [u \in DOMAIN assignment \ {v} |->
                                        assignment[u]]
       /\ (pc = "loop" /\ pc' = "returned" /\ result' = Failure) =>
            /\ variant = "generate" => assignment' = Top.assignment
            /\ (variant = "crossword" /\ stack' # <<>>) =>
                    stack'[Len(stack')].new_assignment = Top.assignment]_vars

\* generate.py: a recursive call has returned failure, the shared dict holds
\* what the call was given, and a slot it left unassigned has two words
C22_Witness ==
    /\ variant = "generate"
    /\ pc = "returned"
    /\ result = Failure
    /\ stack # <<>>
    /\ assignment = SetItem(Top.assignment, Top.var, Head(Top.values))
    /\ \E v \in crossword.variables \ DOMAIN assignment :
            Cardinality(domains[v]) >= 2

\* C23: in crossword.py, at the entry of every backtrack call and whenever
\* the loop is at its head (first entry, or after a restore), the domain of
\* every slot the call's assignment holds is the singleton of its word, and
\* on success every domain is the singleton of the returned word.
C23_AssignedDomainsAreSingletons ==
    variant = "crossword" =>
        /\ \A k \in 1..Len(stack) :
            \A v \in DOMAIN stack[k].assignment :
                stack[k].entry_domains[v] = {stack[k].assignment[v]}
        /\ pc = "loop" =>
            \A v \in DOMAIN Top.assignment :
                domains[v] = {Top.assignment[v]}
        /\ IsSuccess(result) =>
            \A v \in crossword.variables : domains[v] = {result.value[v]}

\* a frame below the first has restored the domains after a failed value,
\* and an ancestor's slot, which has other words of its length, still holds
\* its one word
C23_Witness ==
    /\ variant = "crossword"
    /\ pc = "loop"
    /\ Len(stack) >= 2
    /\ DOMAIN Top.saved_domains # {}
    /\ Len(Top.values) < Cardinality(domains[Top.var])
    /\ \E v \in DOMAIN Top.assignment :
        /\ Cardinality(WordsOfLength(v)) >= 2
        /\ domains[v] = {Top.assignment[v]}

\* C25: once the initial ac3 pass has returned False, main calls backtrack
\* on the empty assignment, that call selects a slot whose domain is empty
\* and of minimal size, tries nothing and returns failure, and main ends
\* with None.
C25_FailedPassEndsInFailure ==
    [][(caller = "main" /\ ret = False) =>
        CASE pc = "ac3_returned" ->
                /\ pc' = "loop"
                /\ Len(stack') = 1
                /\ stack'[1].assignment = EmptyDict
                /\ domains[stack'[1].var] = {}
                /\ stack'[1].values = <<>>
                /\ UNCHANGED <<domains, ret, caller>>
          [] pc = "loop" ->
                /\ pc' = "returned"
                /\ result' = Failure
                /\ stack' = <<>>
                /\ UNCHANGED <<domains, ret, caller>>
          [] pc = "returned" ->
                /\ pc' = "done"
                /\ result' = Failure
                /\ UNCHANGED <<domains, ret, caller>>
          [] OTHER -> FALSE]_vars

\* the call made after a failed pass has returned None to main, and a slot
\* other than the emptied one still had words
C25_Witness ==
    /\ pc = "returned"
    /\ stack = <<>>
    /\ caller = "main"
    /\ ret = False
    /\ IsFailure(result)
    /\ \E v \in crossword.variables : domains[v] # {}

\* the puzzle has a solution: distinct dictionary words of the slots'
\* lengths that agree on every shared cell
Solvable ==
    \E a \in [crossword.variables -> crossword.words] : IsSolution(a)

\* C26: whichever backtrack runs, plain or with inference, main gets failure
\* exactly when the puzzle has no solution; so on one puzzle the two
\* variants fail together or succeed together.
C26_VariantsAgree ==
    pc = "done" => (IsFailure(result) <=> ~ Solvable)

\* the search with inference returned an assignment on a solvable puzzle in
\* which some slot had two or more words of its length to choose from
C26_Witness ==
    /\ pc = "done"
    /\ variant = "crossword"
    /\ IsSuccess(result)
    /\ Solvable
    /\ \E v \in crossword.variables :
            Cardinality(WordsOfLength(v)) >= 2

\* the solutions of the puzzle whose words all lie in the given domains
SolutionsWithin(doms) ==
    {a \in [crossword.variables -> crossword.words] :
        IsSolution(a) /\ \A v \in crossword.variables : a[v] \in doms[v]}

\* C24: revise and ac3 only remove words, and never a word of a solution
\* that lay within the domains before the call; while such a solution
\* exists the call does not return False. Stated for each revise call (one
\* turn of ac3's loop) and for each call of ac3, full or seeded.
C24_PruningKeepsSolutions ==
    /\ [][(pc = "ac3" /\ queue # <<>>) =>
            /\ \A v \in crossword.variables : domains'[v] \subseteq domains[v]
            /\ SolutionsWithin(domains) \subseteq SolutionsWithin(domains')
            /\ SolutionsWithin(domains) # {} =>
                    ~ (pc' = "ac3_returned" /\ ret' = False)]_vars
    /\ []((pc \in {"ac3", "ac3_returned"}) =>
            /\ \A v \in crossword.variables :
                    domains[v] \subseteq CallTimeDomains[v]
            /\ SolutionsWithin(CallTimeDomains) \subseteq SolutionsWithin(domains)
            /\ (SolutionsWithin(CallTimeDomains) # {} /\ pc = "ac3_returned")
                    => ret = True)

\* a seeded ac3 has returned after it removed words, and a solution that lay
\* within the domains at the call lies within them still
C24_Witness ==
    /\ pc = "ac3_returned"
    /\ caller = "backtrack"
    /\ ret = True
    /\ domains # CallTimeDomains
    /\ SolutionsWithin(domains) # {}

\* C21: once main has called backtrack the search ends, with a complete
\* assignment or with failure. The depth of the recursion never exceeds the
\* number of slots; a call's values are distinct words of its slot's domain,
\* each is dropped when its turn of the loop ends, and the call returns
\* failure only when none is left.
C21_SearchTerminates ==
    /\ [](Len(stack) <= Cardinality(crossword.variables))
    /\ [](\A k \in 1..Len(stack) :
            LET values == stack[k].values
            IN  /\ \A i, j \in 1..Len(values) :
                        i # j => values[i] # values[j]
                /\ \A i \in 1..Len(values) :
                        values[i] \in stack[k].entry_domains[stack[k].var])
    /\ [][/\ \A k \in 1..Len(stack) :
                k <= Len(stack') =>
                    /\ stack'[k].var = stack[k].var
                    /\ \/ stack'[k].values = stack[k].values
                       \/ /\ k = Len(stack')
                          /\ stack[k].values # <<>>
                          /\ stack'[k].values = Tail(stack[k].values)
          /\ (pc # "loop" /\ pc' = "loop" /\ Len(stack') = Len(stack)) =>
                stack'[Len(stack')].values = Tail(Top.values)
          /\ (pc = "loop" /\ pc' = "returned" /\ result' = Failure) =>
                Top.values = <<>>]_vars
    /\ [](pc \in {"returned", "done"} =>
            \/ IsFailure(result)
            \/ IsSuccess(result) /\ DOMAIN result.value = crossword.variables)
    /\ (pc = "ac3_returned" /\ caller = "main") ~> (pc = "done")

\* the recursion is as deep as the puzzle has slots, and the deepest call
\* has tried every word of its slot's domain and is about to return failure
C21_Witness ==
    /\ pc = "loop"
    /\ Len(stack) = Cardinality(crossword.variables)
    /\ Len(stack) >= 3
    /\ Top.values = <<>>
    /\ Top.entry_domains[Top.var] # {}

====
